---- MODULE Spec2Model ----
(***************************************************************************)
(* A model of letterboxdHueSort: the csv validation and section parser of  *)
(* utils/csv_utils.py, the poster directory and the per-film download loop *)
(* of utils/poster_utils.py, and the entry point of letterboxdHueSort.py.  *)
(*                                                                         *)
(* Text is a sequence of one-character strings, so that readline, the      *)
(* header regular expression and csv.reader work on characters as the code *)
(* does.  None is the one-element sequence <<"None">>, which no text is.   *)
(***************************************************************************)
EXTENDS Integers, Sequences, FiniteSets, TLC

VARIABLES
    csv_text,      \* the characters of the csv file on disk
    written,       \* the rows the file was written from: <<section, cells>>
    csv_pc,        \* "preamble" | "table" (the file is being written) | "validated" | "parsed"
    valid,         \* what is_valid_letterboxd_format returned: <<>> before the call
    csv_info,      \* what get_csv_sections returned (CSVInfo): <<>> before the call
    main_pc,       \* position of main(): "idle" | "start" | "returned" | "exit_format"
    parent_dir,    \* entries of the csv file's directory: name -> entry
    dir_calls,     \* create_posters_dir calls made so far: <<dir_name, state before, returned path>>
    film_info,     \* the film rows handed to get_posters
    posters,       \* the posters directory: file name -> image
    run_pc,        \* position of get_posters within the current film
    idx,           \* index of the current film (1-based)
    page_contents, \* html of the current film's page
    poster_url,    \* result of get_poster_url for the current film
    poster_content,\* bytes of the current film's poster
    events,        \* what get_posters did, in order: <<kind, film index>>
    console,       \* messages printed, in order
    ending,        \* how get_posters ended, None while it runs
    network,       \* "unreliable" (a request may fail to connect) | "working"
    run,           \* which invocation of get_posters this is: 1 or 2
    first_run,     \* the events of the first invocation, once a second one has begun
    start_posters  \* the posters directory as the first invocation found it

csv_vars == <<csv_text, written, csv_pc, valid, csv_info>>
dir_vars == <<parent_dir, dir_calls>>
run_vars == <<film_info, posters, run_pc, idx, page_contents, poster_url,
              poster_content, events, console, ending>>
resume_vars == <<network, run, first_run, start_posters>>
vars == <<csv_vars, main_pc, dir_vars, run_vars, resume_vars>>

None == <<"None">>

(***************************************************************************)
(* Text helpers                                                            *)
(***************************************************************************)
NL == "\n"
COMMA == ","
QUOTE == "\""

RECURSIVE Cat(_)
\* ''.join(parts)
Cat(parts) ==
    IF parts = <<>> THEN <<>> ELSE Head(parts) \o Cat(Tail(parts))

RECURSIVE Join(_, _)
\* sep.join(parts)
Join(sep, parts) ==
    IF parts = <<>> THEN <<>>
    ELSE IF Len(parts) = 1 THEN Head(parts)
    ELSE Head(parts) \o sep \o Join(sep, Tail(parts))

Take(s, n) == SubSeq(s, 1, IF n < Len(s) THEN n ELSE Len(s))

\* The least i >= from at which pat occurs in s, 0 when there is none.
IndexFrom(s, pat, from) ==
    LET hits == {i \in from..(Len(s) - Len(pat) + 1) : SubSeq(s, i, i + Len(pat) - 1) = pat}
    IN  IF hits = {} THEN 0 ELSE CHOOSE i \in hits : \A j \in hits : i <= j

RECURSIVE ReadLines(_)
\* f.readline() until it returns '': each line keeps its newline.
ReadLines(text) ==
    IF text = <<>> THEN <<>>
    ELSE LET i == IndexFrom(text, <<NL>>, 1) IN
         IF i = 0 THEN <<text>>
         ELSE <<SubSeq(text, 1, i)>> \o ReadLines(SubSeq(text, i + 1, Len(text)))

RECURSIVE DotSegments(_)
\* The maximal pieces of text that `.` can cross: `.` matches any character
\* but a newline, so a match of X.*Y.*Z lies within one of them.
DotSegments(text) ==
    LET i == IndexFrom(text, <<NL>>, 1) IN
    IF i = 0 THEN <<text>>
    ELSE <<SubSeq(text, 1, i - 1)>> \o DotSegments(SubSeq(text, i + 1, Len(text)))

(***************************************************************************)
(* csv_utils.py: the header pattern                                        *)
(***************************************************************************)
MAX_CSV_ROWS_TO_FIND_HEADERS == 6

lURL == <<"U", "R", "L">>
lName == <<"N", "a", "m", "e">>
lYear == <<"Y", "e", "a", "r">>

DroppedAlternativePattern ==
    << <<lURL, lName, lYear>>, <<lURL, lYear, lName>>, <<lName, lURL, lYear>>,
       <<lName, lYear, lURL>>, <<lYear, lURL, lName>> >>

\* The alternatives of the verbose pattern, each (A).*(B).*(C).
CSV_REQUIRED_HEADERS_PATTERN ==
    << <<lURL, lName, lYear>>, <<lURL, lYear, lName>>, <<lName, lURL, lYear>>,
       <<lName, lYear, lURL>>, <<lYear, lURL, lName>>, <<lYear, lName, lURL>> >>

\* (A).*(B).*(C) matches somewhere in a newline-free segment: the leftmost A,
\* the leftmost B after it, the leftmost C after that.
AltMatches(seg, alt) ==
    LET i == IndexFrom(seg, alt[1], 1)
        j == IF i = 0 THEN 0 ELSE IndexFrom(seg, alt[2], i + Len(alt[1]))
        k == IF j = 0 THEN 0 ELSE IndexFrom(seg, alt[3], j + Len(alt[2]))
    IN  k # 0

\* re.search(pattern, text, re.VERBOSE) is not None
re_search(pattern, text) ==
    LET segs == DotSegments(text) IN
    \E a \in 1..Len(pattern) : \E s \in 1..Len(segs) : AltMatches(segs[s], pattern[a])

SevenLines == MAX_CSV_ROWS_TO_FIND_HEADERS + 1

max_lines_to_check == MAX_CSV_ROWS_TO_FIND_HEADERS

\* is_valid_letterboxd_format(csv_file)
is_valid_letterboxd_format(text) ==
    LET lines == Take(ReadLines(text), max_lines_to_check)
        rows == Cat(lines)
    IN  re_search(CSV_REQUIRED_HEADERS_PATTERN, rows)

(***************************************************************************)
(* csv.reader and csv.DictReader, default dialect, as get_csv_sections     *)
(* uses them                                                               *)
(***************************************************************************)
ReaderState(fields, cur, st) == [fields |-> fields, cur |-> cur, st |-> st]

\* One character c taken in state s (parse_process_char).
ReaderChar(s, c) ==
    LET st == IF s.st = "START_RECORD" /\ c # NL THEN "START_FIELD" ELSE s.st
        fields == IF s.st = "START_RECORD" THEN <<>> ELSE s.fields
        cur == IF s.st = "START_RECORD" THEN <<>> ELSE s.cur
    IN
    CASE st = "START_RECORD" -> ReaderState(<<>>, <<>>, "EAT_CRNL")
      [] st = "START_FIELD" ->
            IF c = NL THEN ReaderState(Append(fields, <<>>), <<>>, "EAT_CRNL")
            ELSE IF c = QUOTE THEN ReaderState(fields, <<>>, "IN_QUOTED_FIELD")
            ELSE IF c = COMMA THEN ReaderState(Append(fields, <<>>), <<>>, "START_FIELD")
            ELSE ReaderState(fields, <<c>>, "IN_FIELD")
      [] st = "IN_FIELD" ->
            IF c = NL THEN ReaderState(Append(fields, cur), <<>>, "EAT_CRNL")
            ELSE IF c = COMMA THEN ReaderState(Append(fields, cur), <<>>, "START_FIELD")
            ELSE ReaderState(fields, Append(cur, c), "IN_FIELD")
      [] st = "IN_QUOTED_FIELD" ->
            IF c = QUOTE THEN ReaderState(fields, cur, "QUOTE_IN_QUOTED_FIELD")
            ELSE ReaderState(fields, Append(cur, c), "IN_QUOTED_FIELD")
      [] st = "QUOTE_IN_QUOTED_FIELD" ->
            IF c = QUOTE THEN ReaderState(fields, Append(cur, c), "IN_QUOTED_FIELD")
            ELSE IF c = COMMA THEN ReaderState(Append(fields, cur), <<>>, "START_FIELD")
            ELSE IF c = NL THEN ReaderState(Append(fields, cur), <<>>, "EAT_CRNL")
            ELSE ReaderState(fields, Append(cur, c), "IN_FIELD")
      [] st = "EAT_CRNL" -> ReaderState(fields, cur, "EAT_CRNL")

\* The end-of-line mark the reader feeds itself after each line: it ends the
\* record unless a quoted field is open.
ReaderEndOfLine(s) ==
    IF s.st = "IN_QUOTED_FIELD" THEN s
    ELSE IF s.st \in {"START_RECORD", "EAT_CRNL"} THEN ReaderState(s.fields, <<>>, "START_RECORD")
    ELSE ReaderState(Append(s.fields, s.cur), <<>>, "START_RECORD")

RECURSIVE ReaderChars(_, _, _)
\* The reader's state machine over one line, from its character i on.
ReaderChars(line, i, s) ==
    IF s.st = "EAT_CRNL" \/ i > Len(line) THEN ReaderEndOfLine(s)
    ELSE ReaderChars(line, i + 1, ReaderChar(s, line[i]))

RECURSIVE ReaderLines(_, _, _, _)
\* The records read from the lines from position k on, given the records
\* read before and the state the reader is in.
ReaderLines(lines, k, rows, state) ==
    IF k > Len(lines) THEN
        \* the file is exhausted: an open quoted field ends the last record
        IF state.st = "IN_QUOTED_FIELD" THEN Append(rows, Append(state.fields, state.cur))
        ELSE rows
    ELSE LET after == ReaderChars(lines[k], 1, state) IN
         IF after.st = "START_RECORD"
         THEN ReaderLines(lines, k + 1, Append(rows, after.fields), ReaderState(<<>>, <<>>, "START_RECORD"))
         ELSE ReaderLines(lines, k + 1, rows, after)

\* list(csv.reader(f)): the records of the text, each a list of cells.  The
\* reader takes the file line by line.
csv_reader(text) ==
    ReaderLines(ReadLines(text), 1, <<>>, ReaderState(<<>>, <<>>, "START_RECORD"))

KeepsBlankRows(row) == FALSE

\* DictReader.__next__: `while row == []: row = next(self.reader)`
SkipsRow(row) == row = <<>>

\* The position of key in fieldnames that decides its value: the last one.
LastPosition(fieldnames, key) ==
    CHOOSE m \in 1..Len(fieldnames) :
        /\ fieldnames[m] = key
        /\ \A n \in 1..Len(fieldnames) : fieldnames[n] = key => n <= m

\* The dict DictReader builds for one row: dict(zip(fieldnames, row)), the
\* cells beyond the fieldnames under restkey (None), the fieldnames beyond
\* the cells set to restval (None).
DictRow(fieldnames, row) ==
    LET lf == Len(fieldnames)
        lr == Len(row)
        keys == {fieldnames[i] : i \in 1..lf} \cup (IF lf < lr THEN {None} ELSE {})
    IN  [k \in keys |->
            IF k = None /\ lf < lr THEN SubSeq(row, lf + 1, lr)
            ELSE LET m == LastPosition(fieldnames, k) IN
                 IF m <= lr THEN row[m] ELSE None]

RECURSIVE DictReader(_, _)
\* list(csv.DictReader(f, fieldnames=fieldnames)) over the records left in f
DictReader(fieldnames, rows) ==
    IF rows = <<>> THEN <<>>
    ELSE IF SkipsRow(Head(rows)) THEN DictReader(fieldnames, Tail(rows))
    ELSE <<DictRow(fieldnames, Head(rows))>> \o DictReader(fieldnames, Tail(rows))

\* rows = ', '.join(non_header_line)
JoinedRow(row) == Join(<<COMMA, " ">>, row)

RECURSIVE HeaderIndexOfJoinedRows(_, _)
HeaderIndexOfJoinedRows(rows, i) ==
    IF i > Len(rows) THEN 0
    ELSE IF re_search(CSV_REQUIRED_HEADERS_PATTERN,
                      Join(<<COMMA, " ">>, [k \in 1..i |-> JoinedRow(rows[k])])) THEN i
    ELSE HeaderIndexOfJoinedRows(rows, i + 1)

RECURSIVE HeaderIndex(_, _)
\* The first record from position i on that matches the header pattern, 0 when
\* the loop runs to the end of the file.
HeaderIndex(rows, i) ==
    IF i > Len(rows) THEN 0
    ELSE IF re_search(CSV_REQUIRED_HEADERS_PATTERN, JoinedRow(rows[i])) THEN i
    ELSE HeaderIndex(rows, i + 1)

\* get_csv_sections(csv_file).  The two readers share the file object, and a
\* record ends where a line ends, so the DictReader sees the records after
\* the header as csv_reader yields them.
get_csv_sections(text) ==
    LET rows == csv_reader(text)
        h == HeaderIndex(rows, 1)
        headers == IF h = 0 THEN None ELSE rows[h]
        rest == IF h = 0 THEN <<>> ELSE SubSeq(rows, h + 1, Len(rows))
    IN  [extra_info |-> IF h = 0 THEN rows ELSE SubSeq(rows, 1, h - 1),
         headers |-> headers,
         film_info |-> IF h = 0 THEN <<>> ELSE DictReader(headers, rest)]

(***************************************************************************)
(* The csv files the functions are applied to.  A file is written row by   *)
(* row, as an export or a test writes it: preamble rows, one row of column *)
(* labels, film rows.                                                      *)
(***************************************************************************)
MaxPreamble == 6
MaxTail == 1
MaxFilmRows == 3

cDate == <<"D", "a", "t", "e">>
cTags == <<"T", "a", "g", "s">>
cLowerName == <<"n", "a", "m", "e">>

Labels == {lName, lURL, lYear}

\* Every ordering of the three labels.
LabelOrders ==
    {o \in [1..3 -> Labels] : \A i, j \in 1..3 : o[i] = o[j] => i = j}

\* A row of column labels in the given order: bare, or with other columns
\* before and between them.
BareHeader(o) == <<o[1], o[2], o[3]>>
InterleavedHeader(o) == <<cDate, o[1], cTags, o[2], o[3]>>
HeaderRows == {BareHeader(o) : o \in LabelOrders} \cup {InterleavedHeader(o) : o \in LabelOrders}

\* Rows of labels that lack a required label: `Year` is missing (the header
\* row of the tests' invalid file), `name` is in lower case.
IncompleteRows == {<<cDate, lName, cTags, lURL>>, <<cLowerName, lURL, lYear>>}

LabelRows == HeaderRows \cup IncompleteRows

\* Preamble rows: each carries some of the labels, never all three.
PreambleRows == {<<lName, lURL>>, <<<<"v", "7">>, lYear>>}

\* Film rows under a three-column header: as many cells, fewer, more, a cell
\* with a comma in it, empty cells, and a blank row.
FilmRows ==
    { <<<<"A">>, <<"u">>, <<"1">>>>,
      <<<<"B">>, <<"w">>>>,
      <<<<"C">>, <<"x">>, <<"2">>, <<"z">>>>,
      <<<<"D", ",", "E">>, <<"y">>, <<"3">>>>,
      <<<<>>, <<>>, <<>>>>,
      <<>> }

SampleFilmRows == { <<<<"2">>, <<"A">>, <<"u">>, <<"t">>, <<"1">>>> }

NeedsQuotes(cell) == \E i \in 1..Len(cell) : cell[i] \in {COMMA, QUOTE, NL}

RECURSIVE DoubleQuotes(_)
DoubleQuotes(cell) ==
    IF cell = <<>> THEN <<>>
    ELSE (IF Head(cell) = QUOTE THEN <<QUOTE, QUOTE>> ELSE <<Head(cell)>>) \o DoubleQuotes(Tail(cell))

FormatCell(cell) ==
    IF NeedsQuotes(cell) THEN <<QUOTE>> \o DoubleQuotes(cell) \o <<QUOTE>> ELSE cell

\* One line of the file: the cells separated by commas, a newline.
FormatRow(cells) ==
    Join(<<COMMA>>, [i \in 1..Len(cells) |-> FormatCell(cells[i])]) \o <<NL>>

RowsOf(section) == SelectSeq(written, LAMBDA r : r[1] = section)

WriteRow(section, cells) ==
    /\ written' = Append(written, <<section, cells>>)
    /\ csv_text' = csv_text \o FormatRow(cells)

WritePreamble ==
    /\ csv_pc = "preamble"
    /\ Len(written) < MaxPreamble
    /\ \E cells \in PreambleRows : WriteRow("preamble", cells)
    /\ UNCHANGED <<csv_pc, valid, csv_info, main_pc, dir_vars, run_vars, resume_vars>>

WriteLabels ==
    /\ csv_pc = "preamble"
    /\ \E cells \in LabelRows : WriteRow("labels", cells)
    /\ csv_pc' = "table"
    /\ UNCHANGED <<valid, csv_info, main_pc, dir_vars, run_vars, resume_vars>>

WriteFilmRow(kinds, max) ==
    /\ csv_pc = "table"
    /\ Len(RowsOf("film")) < max
    /\ \E cells \in kinds : WriteRow("film", cells)
    /\ UNCHANGED <<csv_pc, valid, csv_info, main_pc, dir_vars, run_vars, resume_vars>>

WriteSampleFilm == WriteFilmRow(SampleFilmRows, MaxTail)

WriteFilm == WriteFilmRow(FilmRows, MaxFilmRows)

\* A call of is_valid_letterboxd_format on the file.
IsValid ==
    /\ csv_pc \in {"preamble", "table"}
    /\ valid' = <<is_valid_letterboxd_format(csv_text)>>
    /\ csv_pc' = "validated"
    /\ UNCHANGED <<csv_text, written, csv_info, main_pc, dir_vars, run_vars, resume_vars>>

\* A call of get_csv_sections on the file.
GetCsvSections ==
    /\ csv_pc \in {"preamble", "table"}
    /\ csv_info' = <<get_csv_sections(csv_text)>>
    /\ csv_pc' = "parsed"
    /\ UNCHANGED <<csv_text, written, valid, main_pc, dir_vars, run_vars, resume_vars>>

CsvEmpty ==
    /\ csv_text = <<>>
    /\ written = <<>>
    /\ csv_pc = "preamble"
    /\ valid = <<>>
    /\ csv_info = <<>>

MainIdle == main_pc = "idle"

DirIdle ==
    /\ parent_dir = <<>>
    /\ dir_calls = <<>>

RunIdle ==
    /\ film_info = <<>>
    /\ posters = <<>>
    /\ run_pc = "idle"
    /\ idx = 0
    /\ page_contents = None
    /\ poster_url = None
    /\ poster_content = None
    /\ events = <<>>
    /\ console = <<>>
    /\ ending = "none"
    /\ network = "unreliable"
    /\ run = 1
    /\ first_run = <<>>
    /\ start_posters = <<>>

\* The header search: files with up to MaxPreamble preamble rows, a row of
\* labels and up to MaxTail film rows, validated or parsed.
InitCsv == CsvEmpty /\ MainIdle /\ DirIdle /\ RunIdle

NextCsv == WritePreamble \/ WriteLabels \/ WriteSampleFilm \/ IsValid \/ GetCsvSections

SpecCsv == InitCsv /\ [][NextCsv]_vars

\* The film rows: files that start with a header row, after no or one
\* preamble row, and go on with up to MaxFilmRows film rows.
TableHeads ==
    { << <<"labels", <<lName, lURL, lYear>>>> >>,
      << <<"preamble", <<<<"v", "7">>, lYear>>>>, <<"labels", <<lYear, lName, lURL>>>> >>,
      << <<"labels", <<lName, lURL, lYear, lName>>>> >> }

InitRows ==
    /\ written \in TableHeads
    /\ csv_text = Cat([i \in 1..Len(written) |-> FormatRow(written[i][2])])
    /\ csv_pc = "table"
    /\ valid = <<>>
    /\ csv_info = <<>>
    /\ MainIdle /\ DirIdle /\ RunIdle

NextRows == WriteFilm \/ GetCsvSections

SpecRows == InitRows /\ [][NextRows]_vars

(***************************************************************************)
(* poster_utils.py: the web the films live on                              *)
(***************************************************************************)
SHRINK_FACTOR == 2
img_extension == ".jpg"

\* Poster urls that FILM_POSTER_URL_PATTERN matches, and one it does not.  A
\* url is kept whole, as a text of one piece.
CdnUrls == {<<"cdn/a.jpg">>, <<"cdn/a2.jpg">>, <<"cdn/r.jpg">>, <<"cdn/b.jpg">>, <<"cdn/x.jpg">>}
OtherUrl == <<"img/x.png">>

\* The page behind a film url: its tags in order, each with the url it holds.
Site(film_url) ==
    CASE film_url = "boxd/a" -> << <<"img", OtherUrl>>, <<"script", <<>>>>,
                                   <<"script", <<"cdn/a.jpg">>>>, <<"script", <<"cdn/a2.jpg">>>> >>
      [] film_url = "boxd/r" -> << <<"script", <<"cdn/r.jpg">>>> >>
      [] film_url = "boxd/b" -> << <<"div", <<>>>>, <<"script", <<"cdn/b.jpg">>>> >>
      [] film_url = "boxd/x" -> << <<"img", <<"cdn/x.jpg">>>>, <<"script", OtherUrl>> >>

\* The bytes behind a poster url: an image of some width and height, or bytes
\* that are no image (<<>>).
Cdn(url) ==
    CASE url = <<"cdn/a.jpg">> -> <<4, 6>>
      [] url = <<"cdn/r.jpg">> -> <<3, 5>>
      [] OTHER -> <<>>

FilmUrls == {"boxd/a", "boxd/r", "boxd/b", "boxd/x"}
FilmNames == {"Amelie", "RRR"}

\* get_poster_url(film_page_contents): the first match of the poster pattern
\* in the script tags of the page, None when there is none.
get_poster_url(film_page_contents) ==
    LET script_tags == SelectSeq(film_page_contents, LAMBDA t : t[1] = "script")
        hits == SelectSeq(script_tags, LAMBDA t : t[2] \in CdnUrls)
    IN  IF hits = <<>> THEN None ELSE hits[1][2]

\* picture_path: Path(download_location) / Path(film_name + extension)
PicturePath(film_name) == <<film_name, img_extension>>

\* What download_poster saves: the image at half its width and height.
Resized(im) == <<im[1] \div SHRINK_FACTOR, im[2] \div SHRINK_FACTOR>>

\* posters with the file at path written (created or replaced).
Saved(dir, path, content) ==
    [f \in DOMAIN dir \cup {path} |-> IF f = path THEN content ELSE dir[f]]

\* A poster file from an earlier run.
OldPoster == <<9, 9>>
\* A file whose writing was cut short.
Truncated == <<0, 0>>

CONNECTIVITY == " There seems to be a problem with your internet connection."
FAREWELL == "Goodbye for now"
SKIPPING == "Poster already exists. Skipping this film"
FOUND == "Found poster"
NOT_FOUND == "Couldn't find poster"

(***************************************************************************)
(* get_posters: one action per blocking step of the per-film loop          *)
(***************************************************************************)
MaxFilms == 3

Film == film_info[idx]

Event(kind, outcome) == <<kind, idx, outcome>>

AlwaysAbsent(film_name) == FALSE

ChecksOtherExtension(film_name) == <<film_name, ".png">> \in DOMAIN posters

\* Path.exists(Path(posters_dir) / Path(film_name + img_extension))
PosterExists(film_name) == PicturePath(film_name) \in DOMAIN posters

RetryAfterNoConnection(kind) ==
    /\ events' = Append(events, Event(kind, "ConnectionError"))
    /\ console' = Append(console, CONNECTIVITY)
    /\ UNCHANGED <<ending, run_pc>>

\* sys.exit() after the connectivity message
ExitNoConnection(kind) ==
    /\ network = "unreliable"
    /\ events' = Append(events, Event(kind, "ConnectionError"))
    /\ console' = Append(console, CONNECTIVITY)
    /\ ending' = "SystemExit"
    /\ run_pc' = "done"

\* sys.exit('Goodbye for now')
ExitFarewell(kind) ==
    /\ events' = Append(events, Event(kind, "KeyboardInterrupt"))
    /\ ending' = "SystemExit: " \o FAREWELL
    /\ run_pc' = "done"
    /\ UNCHANGED console

\* An exception no handler of get_posters catches.
Uncaught(kind, exception) ==
    /\ events' = Append(events, Event(kind, exception))
    /\ ending' = exception
    /\ run_pc' = "done"
    /\ UNCHANGED console

\* for film in csv_sections.film_info: the title, and the check for a poster
\* that is already there.
NextFilm ==
    /\ run_pc = "loop"
    /\ ending = "none"
    /\ IF idx > Len(film_info)
       THEN /\ ending' = "returned"
            /\ run_pc' = "done"
            /\ UNCHANGED <<idx, events, console>>
       ELSE IF PosterExists(Film.Name)
       THEN /\ events' = Append(events, Event("check", "exists"))
            /\ console' = Append(console, SKIPPING)
            /\ idx' = idx + 1
            /\ UNCHANGED <<run_pc, ending>>
       ELSE /\ run_pc' = "fetch_page"
            /\ UNCHANGED <<idx, events, console, ending>>
    /\ UNCHANGED <<film_info, posters, page_contents, poster_url, poster_content>>
    /\ UNCHANGED <<csv_vars, main_pc, dir_vars, resume_vars>>

SoftFailureIsFatal ==
    /\ events' = Append(events, Event("page", "no poster"))
    /\ console' = Append(console, NOT_FOUND)
    /\ ending' = "SystemExit"
    /\ run_pc' = "done"
    /\ UNCHANGED idx

\* The else branch of `if poster_url`: the soft failure, then `continue`.
NoPosterFound ==
    /\ events' = Append(events, Event("page", "no poster"))
    /\ console' = Append(console, NOT_FOUND)
    /\ idx' = idx + 1
    /\ run_pc' = "loop"
    /\ UNCHANGED ending

\* get_film_page_html(film_url, msg) and get_poster_url(page_contents)
FetchPage ==
    /\ run_pc = "fetch_page"
    /\ \/ /\ page_contents' = Site(Film.URL)
          /\ poster_url' = get_poster_url(Site(Film.URL))
          /\ IF get_poster_url(Site(Film.URL)) # None
             THEN /\ events' = Append(events, Event("page", "found"))
                  /\ console' = Append(console, FOUND)
                  /\ run_pc' = "fetch_poster"
                  /\ UNCHANGED <<idx, ending>>
             ELSE NoPosterFound
       \/ /\ ExitNoConnection("page")
          /\ UNCHANGED <<idx, page_contents, poster_url>>
       \/ /\ ExitFarewell("page")
          /\ UNCHANGED <<idx, page_contents, poster_url>>
    /\ UNCHANGED <<film_info, posters, poster_content>>
    /\ UNCHANGED <<csv_vars, main_pc, dir_vars, resume_vars>>

\* get_poster_contents(poster_url, msg)
FetchPoster ==
    /\ run_pc = "fetch_poster"
    /\ \/ /\ poster_content' = Cdn(poster_url)
          /\ events' = Append(events, Event("poster", "fetched"))
          /\ run_pc' = "save"
          /\ UNCHANGED <<console, ending>>
       \/ /\ ExitNoConnection("poster")
          /\ UNCHANGED poster_content
       \/ /\ ExitFarewell("poster")
          /\ UNCHANGED poster_content
    /\ UNCHANGED <<film_info, posters, idx, page_contents, poster_url>>
    /\ UNCHANGED <<csv_vars, main_pc, dir_vars, resume_vars>>

\* download_poster(poster_content, film_name, posters_dir, msg, img_extension):
\* no handler surrounds it.  An interrupt or a failed write may leave the file
\* it was writing cut short.
SavePoster ==
    /\ run_pc = "save"
    /\ \/ /\ poster_content # <<>>
          /\ posters' = Saved(posters, PicturePath(Film.Name), Resized(poster_content))
          /\ events' = Append(events, Event("save", "saved"))
          /\ idx' = idx + 1
          /\ run_pc' = "loop"
          /\ UNCHANGED <<console, ending>>
       \/ /\ poster_content = <<>>
          /\ Uncaught("save", "UnidentifiedImageError")
          /\ UNCHANGED <<posters, idx>>
       \/ /\ \E exception \in {"KeyboardInterrupt", "OSError"} : Uncaught("save", exception)
          /\ \/ UNCHANGED posters
             \/ /\ poster_content # <<>>
                /\ posters' = Saved(posters, PicturePath(Film.Name), Truncated)
          /\ UNCHANGED idx
    /\ UNCHANGED <<film_info, page_contents, poster_url, poster_content>>
    /\ UNCHANGED <<csv_vars, main_pc, dir_vars, resume_vars>>

Films == [Name : FilmNames, URL : FilmUrls]

FilmLists == UNION {[1..n -> Films] : n \in 0..MaxFilms}

\* The posters directories a run starts from: empty, or with a poster that
\* an earlier run left.
StartDirs ==
    {<<>>} \cup {[f \in {PicturePath(n)} |-> OldPoster] : n \in FilmNames}

InitPosters ==
    /\ film_info \in FilmLists
    /\ posters \in StartDirs
    /\ run_pc = "loop"
    /\ idx = 1
    /\ page_contents = None
    /\ poster_url = None
    /\ poster_content = None
    /\ events = <<>>
    /\ console = <<>>
    /\ ending = "none"
    /\ network = "unreliable"
    /\ run = 1
    /\ first_run = <<>>
    /\ start_posters = posters
    /\ CsvEmpty /\ MainIdle /\ DirIdle

NextPosters == NextFilm \/ FetchPage \/ FetchPoster \/ SavePoster

SpecPosters == InitPosters /\ [][NextPosters]_vars

(***************************************************************************)
(* get_posters run again after a run that was cut short                    *)
(***************************************************************************)
\* The endings of a run that was cut short: sys.exit() after a connection
\* failure, sys.exit('Goodbye for now') after an interrupt at a fetch, and an
\* interrupt or a failed write that nothing caught.
CutShort == {"SystemExit", "SystemExit: " \o FAREWELL, "KeyboardInterrupt", "OSError"}

\* The program is started again on the same csv file: get_posters gets the
\* same film list and the posters directory as the first run left it, and
\* this time every request connects.
RunAgain ==
    /\ run = 1
    /\ run_pc = "done"
    /\ ending \in CutShort
    /\ run' = 2
    /\ first_run' = events
    /\ network' = "working"
    /\ run_pc' = "loop"
    /\ idx' = 1
    /\ page_contents' = None
    /\ poster_url' = None
    /\ poster_content' = None
    /\ events' = <<>>
    /\ console' = <<>>
    /\ ending' = "none"
    /\ UNCHANGED <<film_info, posters, start_posters>>
    /\ UNCHANGED <<csv_vars, main_pc, dir_vars>>

NextResume == NextPosters \/ RunAgain

SpecResume == InitPosters /\ [][NextResume]_vars

RECURSIVE SingleRun(_, _, _)
\* The posters directory get_posters leaves when it runs over films from
\* film i on, starting from dir, with every request connecting and nothing
\* interrupting it: a film whose poster is there is skipped, a page without
\* a poster url is passed over, poster bytes that are no image end the run,
\* and any other poster is saved at half its size.
SingleRun(films, i, dir) ==
    IF i > Len(films) THEN dir
    ELSE LET path == PicturePath(films[i].Name)
             url == get_poster_url(Site(films[i].URL))
         IN  IF path \in DOMAIN dir THEN SingleRun(films, i + 1, dir)
             ELSE IF url = None THEN SingleRun(films, i + 1, dir)
             ELSE IF Cdn(url) = <<>> THEN dir
             ELSE SingleRun(films, i + 1, Saved(dir, path, Resized(Cdn(url))))

(***************************************************************************)
(* poster_utils.py: create_posters_dir                                     *)
(***************************************************************************)
MaxCalls == 2

ParentPath == "/lists"
DirNames == {"posters", "art"}

\* An entry of a directory: a regular file, or a directory with the names
\* of the files in it.
RegularFile == <<"file", {}>>
Directory(files) == <<"dir", files>>

\* Path(PurePath(parent_dir) / Path(dir_name))
FolderPath(dir_name) == <<ParentPath, dir_name>>

\* Path.exists(folder_path): true of any kind of entry.
PathExists(dir_name) == dir_name \in DOMAIN parent_dir

\* os.makedirs(folder_path)
MakeDirs(dir_name) ==
    [n \in DOMAIN parent_dir \cup {dir_name} |->
        IF n = dir_name THEN Directory({}) ELSE parent_dir[n]]

\* create_posters_dir(parent_dir, dir_name, msg)
CreatePostersDir ==
    /\ Len(dir_calls) < MaxCalls
    /\ \E dir_name \in DirNames :
          LET created == ~PathExists(dir_name)
              after == IF created THEN MakeDirs(dir_name) ELSE parent_dir
          IN  /\ parent_dir' = after
              /\ dir_calls' = Append(dir_calls,
                    [dir_name |-> dir_name, before |-> parent_dir, after |-> after,
                     printed |-> created, returned |-> FolderPath(dir_name)])
    /\ UNCHANGED <<csv_vars, main_pc, run_vars, resume_vars>>

\* The directory of the csv file before the first call: the csv file, and
\* under each name the call may be given nothing, a regular file, an empty
\* directory or a directory with a poster in it.
StartEntries == {<<>>, <<RegularFile>>, <<Directory({})>>, <<Directory({"Amelie.jpg"})>>}

StartParents ==
    {[n \in {"list.csv"} \cup {d \in DirNames : e[d] # <<>>} |->
        IF n = "list.csv" THEN RegularFile ELSE e[n][1]] : e \in [DirNames -> StartEntries]}

InitDir ==
    /\ parent_dir \in StartParents
    /\ dir_calls = <<>>
    /\ CsvEmpty /\ MainIdle /\ RunIdle

NextDir == CreatePostersDir

SpecDir == InitDir /\ [][NextDir]_vars

(***************************************************************************)
(* letterboxdHueSort.py: the script and main()                             *)
(***************************************************************************)
\* The module body: the argument parser, then the definitions.  The
\* annotation CSVInfo of all_posters_downloaded names nothing the module
\* imports: an interpreter that evaluates annotations at the def raises
\* NameError there, before main() is called; one that defers them goes on.
LoadModule ==
    /\ main_pc = "idle"
    /\ main_pc' \in {"NameError", "main"}
    /\ UNCHANGED <<csv_vars, dir_vars, run_vars, resume_vars>>

\* main(): the path of the csv file, the format check, and nothing more: the
\* loop over the films follows a return in all_posters_downloaded.
Main ==
    /\ main_pc = "main"
    /\ csv_pc \in {"preamble", "table"}
    /\ valid' = <<is_valid_letterboxd_format(csv_text)>>
    /\ csv_pc' = "validated"
    /\ main_pc' = IF is_valid_letterboxd_format(csv_text) THEN "returned" ELSE "SystemExit: format"
    /\ UNCHANGED <<csv_text, written, csv_info, dir_vars, run_vars, resume_vars>>

InitMain == InitCsv

NextMain == WritePreamble \/ WriteLabels \/ LoadModule \/ Main

SpecMain == InitMain /\ [][NextMain]_vars

(***************************************************************************)
(* Properties of the csv functions                                         *)
(***************************************************************************)
\* A label occurs in the text of a cell of the row.
RowCarries(cells, label) == \E c \in 1..Len(cells) : IndexFrom(cells[c], label, 1) # 0

RowCarriesAll(cells) == \A label \in Labels : RowCarries(cells, label)

WindowRows == 1..(IF Len(written) < MAX_CSV_ROWS_TO_FIND_HEADERS
                  THEN Len(written) ELSE MAX_CSV_ROWS_TO_FIND_HEADERS)

\* C1: a file is valid when one of its first 6 rows holds Name, URL and Year
\* in any of the six orders, bare or with other columns before and between
\* them, whatever preamble rows come before that row.
C1_AnyOrderInWindowIsValid ==
    (csv_pc = "validated" /\ \E i \in WindowRows : written[i][2] \in HeaderRows)
        => valid = <<TRUE>>

\* C1 witness: five preamble rows, then on row 6 the labels in the order Year,
\* Name, URL between other columns, and the file was found valid.
C1_Witness ==
    /\ csv_pc = "validated"
    /\ valid = <<TRUE>>
    /\ Len(written) >= 6
    /\ \A i \in 1..5 : written[i][1] = "preamble"
    /\ written[6][2] = <<cDate, lYear, cTags, lName, lURL>>

\* C2: a file is invalid when none of its first 6 rows carries all three
\* labels: the empty file, a file whose row of labels lacks one, a file whose
\* labels come only after row 6.
C2_NoLabelsInWindowIsInvalid ==
    (csv_pc = "validated" /\ \A i \in WindowRows : ~RowCarriesAll(written[i][2]))
        => valid = <<FALSE>>

\* C2 witness: six preamble rows, a full header on row 7, and the file was
\* found invalid.
C2_Witness ==
    /\ csv_pc = "validated"
    /\ valid = <<FALSE>>
    /\ Len(written) >= 7
    /\ written[7][2] \in HeaderRows

\* C7 as claimed: get_csv_sections finds no header and no film rows when none
\* of the first 6 rows matches the header pattern, also when a matching row
\* comes after row 6.
C7_NoHeaderInWindow_Claimed ==
    (csv_pc = "parsed" /\ \A i \in WindowRows : ~RowCarriesAll(written[i][2]))
        => (csv_info[1].headers = None /\ csv_info[1].film_info = <<>>)

\* C7 amended: get_csv_sections finds no header and no film rows when no row
\* of the whole file matches the header pattern; it has no 6-row window.
C7_NoHeaderInFile ==
    (csv_pc = "parsed" /\ \A i \in 1..Len(written) : ~RowCarriesAll(written[i][2]))
        => (csv_info[1].headers = None /\ csv_info[1].film_info = <<>>)

\* C7 witness: preamble rows that carry the three labels between them, a row
\* of labels that lacks Year, a film row, and nothing was found.
C7_Witness ==
    /\ csv_pc = "parsed"
    /\ Len(written) = 4
    /\ written[1][2] = <<lName, lURL>>
    /\ written[2][2] = <<<<"v", "7">>, lYear>>
    /\ written[3][2] = <<cDate, lName, cTags, lURL>>
    /\ written[4][1] = "film"
    /\ csv_info[1].headers = None
    /\ csv_info[1].film_info = <<>>
    /\ Len(csv_info[1].extra_info) = 4

HeaderWritten == RowsOf("labels")[1][2]

FilmsWritten == [i \in 1..Len(RowsOf("film")) |-> RowsOf("film")[i][2]]

HeaderLabels == {HeaderWritten[k] : k \in 1..Len(HeaderWritten)}

LastEvent(evs) == evs[Len(evs)]

NewEvent == Len(events') = Len(events) + 1

FetchKinds == {"page", "poster"}

\* C3: a film whose <Name>.jpg is in the posters directory when the loop
\* reaches it is passed over with no page fetch and no poster fetch, and no
\* step of a run changes or removes a file that is in the directory, also
\* when two film rows share a Name.
C3_ExistingPosterIsSkipped ==
    [][/\ (/\ run_pc = "loop"
           /\ idx <= Len(film_info)
           /\ PicturePath(film_info[idx].Name) \in DOMAIN posters)
          => /\ idx' = idx + 1
             /\ run_pc' = "loop"
             /\ \A e \in 1..Len(events') :
                    (events'[e][2] = idx => events'[e][1] \notin FetchKinds \cup {"save"})
       /\ \A f \in DOMAIN posters : f \in DOMAIN posters' /\ posters'[f] = posters[f]
      ]_vars

\* C3 witness: two rows named Amelie with different urls, an empty directory:
\* the first was saved, the second passed over, and the file is the first's.
C3_Witness ==
    /\ Len(film_info) >= 2
    /\ film_info[1] = [Name |-> "Amelie", URL |-> "boxd/a"]
    /\ film_info[2] = [Name |-> "Amelie", URL |-> "boxd/r"]
    /\ events = << <<"page", 1, "found">>, <<"poster", 1, "fetched">>,
                   <<"save", 1, "saved">>, <<"check", 2, "exists">> >>
    /\ posters[PicturePath("Amelie")] = <<2, 3>>

ConnectionFailure == NewEvent /\ LastEvent(events')[3] = "ConnectionError"

\* C4: a connection failure at the page fetch or at the poster fetch ends the
\* run there with sys.exit() after the connectivity message, not with the
\* exception; nothing is located, fetched or saved after the run has ended,
\* and the files in the posters directory stay as they were.
C4_ConnectionFailureHalts ==
    [][/\ ConnectionFailure
          => /\ LastEvent(events')[1] \in FetchKinds
             /\ ending' = "SystemExit"
             /\ console' = Append(console, CONNECTIVITY)
             /\ posters' = posters
       /\ ending # "none" => UNCHANGED <<posters, events, console, idx, run_pc, ending>>
      ]_vars

\* C4 witness: of three films the first was saved, the poster fetch of the
\* second met the connection failure, and the run ended by sys.exit().
C4_Witness ==
    /\ Len(film_info) = 3
    /\ events = << <<"page", 1, "found">>, <<"poster", 1, "fetched">>, <<"save", 1, "saved">>,
                   <<"page", 2, "found">>, <<"poster", 2, "ConnectionError">> >>
    /\ ending = "SystemExit"
    /\ posters = [f \in {PicturePath(film_info[1].Name)} |-> <<2, 3>>]

NoPosterStep ==
    /\ run_pc = "fetch_page"
    /\ NewEvent
    /\ LastEvent(events')[3] \notin {"ConnectionError", "KeyboardInterrupt"}
    /\ get_poster_url(Site(film_info[idx].URL)) = None

\* C5: when get_poster_url returns None for a film, no file is written, the
\* soft failure is printed, the run has not ended and the loop is at the next
\* film; and the loop can always take its next film while the run has not ended.
C5_NoPosterContinues ==
    /\ [][NoPosterStep
            => /\ posters' = posters
               /\ console' = Append(console, NOT_FOUND)
               /\ ending' = "none"
               /\ run_pc' = "loop"
               /\ idx' = idx + 1]_vars
    /\ []((run_pc = "loop" /\ ending = "none") => ENABLED NextFilm)

\* C5 witness: no poster was found for the first film, the second was saved,
\* and the directory holds the second film's poster only.
C5_Witness ==
    /\ Len(film_info) >= 2
    /\ film_info[1].Name # film_info[2].Name
    /\ events = << <<"page", 1, "no poster">>, <<"page", 2, "found">>,
                   <<"poster", 2, "fetched">>, <<"save", 2, "saved">> >>
    /\ DOMAIN posters = {PicturePath(film_info[2].Name)}

\* C8 as claimed: an interrupt at the page fetch, at the poster fetch or at
\* the save ends the run with the farewell message.
C8_InterruptSaysFarewell_Claimed ==
    [][(NewEvent /\ LastEvent(events')[3] = "KeyboardInterrupt")
          => ending' = "SystemExit: " \o FAREWELL]_vars

\* The outcomes of a step of get_posters that are failures other than the
\* soft one ("no poster").
HardFailures == {"ConnectionError", "KeyboardInterrupt", "UnidentifiedImageError", "OSError"}

\* The ways a run ends that are not an uncaught exception: it is still
\* running, it returned, or it left through one of the two sys.exit calls.
MessageEndings == {"none", "returned", "SystemExit", "SystemExit: " \o FAREWELL}

\* C11 as claimed: of the failures of a step of get_posters only "no poster
\* found" is absorbed by the loop; a connection failure, an interrupt,
\* undecodable poster bytes or a failed write is the last thing the run does,
\* and the run then ends through a sys.exit with its message (the
\* connectivity message on the console, or the farewell), never as an
\* uncaught exception.
C11_HardFailuresEndWithMessage_Claimed ==
    /\ \A e \in 1..Len(events) :
          events[e][3] \in HardFailures => (e = Len(events) /\ run_pc = "done")
    /\ ending \in MessageEndings
    /\ ending = "SystemExit" => (console # <<>> /\ console[Len(console)] = CONNECTIVITY)

\* The second run follows a first run that a connection failure cut short.
ResumedAfterNoConnection ==
    /\ run = 2
    /\ first_run # <<>>
    /\ LastEvent(first_run)[3] = "ConnectionError"

\* The films (by position in the list) whose poster the run with events evs
\* saved.
SavedIn(evs) == {evs[e][2] : e \in {k \in 1..Len(evs) : evs[k][1] = "save" /\ evs[k][3] = "saved"}}

\* The films for which the run with events evs sent a request.
FetchedIn(evs) == {evs[e][2] : e \in {k \in 1..Len(evs) : evs[k][1] \in FetchKinds}}

\* The second run went its whole way: it returned, or undecodable poster
\* bytes ended it as they end a single run with a working network; no
\* interrupt and no failed write cut it short.
SecondRunWentThrough == run_pc = "done" /\ ending \in {"returned", "UnidentifiedImageError"}

\* C12: when a connection failure cut the first run of get_posters short and
\* get_posters runs again on the same film list and posters directory with a
\* working network, the second run sends no request for a film whose poster
\* the first run saved, and once it has gone its whole way the posters
\* directory is the one a single run with a working network would have left.
C12_ResumedRunCompletesThePosters ==
    ResumedAfterNoConnection
        => /\ FetchedIn(events) \cap SavedIn(first_run) = {}
           /\ SecondRunWentThrough => posters = SingleRun(film_info, 1, start_posters)

\* The first run saved a poster and then lost its connection; the second run
\* skipped the saved film, saved another and returned.
C12_Witness ==
    /\ ResumedAfterNoConnection
    /\ SavedIn(first_run) # {}
    /\ ending = "returned"
    /\ SavedIn(events) # {}
    /\ \E e \in 1..Len(events) :
          events[e][3] = "exists" /\ events[e][2] \in SavedIn(first_run)

(***************************************************************************)
(* Properties of main and of create_posters_dir                            *)
(***************************************************************************)
\* C9 as claimed: when main has dealt with a csv file of valid format, the
\* file has been parsed into sections and the loop over its films has run to
\* the end.
C9_MainRunsTheBatch_Claimed ==
    (main_pc = "returned" /\ valid = <<TRUE>>)
        => (csv_info # <<>> /\ ending = "returned")

IsDirectory(dir, name) == name \in DOMAIN dir /\ dir[name][1] = "dir"

\* C10 as claimed: every call returns parent_dir/dir_name and leaves a
\* directory of that name; when there was no such directory before, the call
\* added exactly one entry to parent_dir, and when there was one, the call
\* changed nothing.
C10_PostersDirCreatedOnce_Claimed ==
    \A c \in 1..Len(dir_calls) :
        LET call == dir_calls[c] IN
        /\ call.returned = <<ParentPath, call.dir_name>>
        /\ IsDirectory(call.after, call.dir_name)
        /\ ~IsDirectory(call.before, call.dir_name)
              => /\ DOMAIN call.after = DOMAIN call.before \cup {call.dir_name}
                 /\ Cardinality(DOMAIN call.after) = Cardinality(DOMAIN call.before) + 1
                 /\ \A n \in DOMAIN call.before : call.after[n] = call.before[n]
        /\ IsDirectory(call.before, call.dir_name) => call.after = call.before

====
